---- MODULE Spec2Model ----
(***************************************************************************)
(* Buffet Race (src/components/RaceSimulation.tsx).                        *)
(*                                                                         *)
(* The RaceSimulation component holds the run state (player and food       *)
(* counts, scoreboard, running / game-over flags, countdown) and the       *)
(* Simulation component holds the World (players, food items) and the      *)
(* per-frame game loop.  The per-player update, updateBuffetPlayers, lives *)
(* in ./buffetplayers, which is not among the sources; it is modelled from *)
(* section 4.2 of the specification.                                       *)
(*                                                                         *)
(* Coordinates are fixed-point: one grid unit is 1/Scale of a world unit,  *)
(* and a position is the pair <<x, z>> (the height y never enters the      *)
(* update).  Time is counted in quanta; a player covers Speed grid units   *)
(* per quantum.                                                            *)
(***************************************************************************)
EXTENDS Integers, Sequences, FiniteSets, TLC

\* ---------------------------------------------------------------- bounds
MaxPlayers == 2
MaxFood == 2

\* ------------------------------------------------------------- constants
MAP_SIZE == 8
gameDuration == 60
MinPlayers == 1
MaxPlayerCount == 8
MinFoodAmount == 1
MaxFoodAmount == 500
InitialPlayerCount == 4
InitialFoodAmount == 100

Scale == 2
Speed == 1
PickupRadius == 2

mapSize == MAP_SIZE * Scale

\* Largest step for which a player cannot jump from outside the pickup
\* radius on one side of its target to outside it on the other side.
StableStep == 2 * PickupRadius - 1
BigDelta == 4 * PickupRadius

\* Values the frame clock can report: not-a-number, infinite, negative,
\* zero, small positive and one large positive increment.
\* A JavaScript number: finite, NaN or Infinity.
Num(n) == [kind |-> "finite", val |-> n]
NaN == [kind |-> "NaN", val |-> 0]
Infinity == [kind |-> "Infinity", val |-> 0]

PositiveDeltas == {Num(StableStep)}
\* Every positive increment that keeps the step at or below StableStep.
BoundedDeltas == {Num(d) : d \in 1..(StableStep \div Speed)}
Deltas == {NaN, Infinity, Num(-1), Num(0)} \cup PositiveDeltas \cup {Num(BigDelta)}

\* Values typed into the count inputs, after parseInt.
InputValues == {NaN} \cup {Num(n) : n \in {-1, 0, 1, 2, 3, 9, 501}}

\* Places the random food spawn may pick (all within [min, max]).
FoodSites == { <<0, 0>>, <<15, 4>> }

VARIABLES
    playerCount,          \* useState playerCount
    foodAmount,           \* useState foodAmount
    scores,               \* useState scores (the scoreboard)
    isSimulationRunning,  \* useState isSimulationRunning
    isGameOver,           \* useState isGameOver
    timeLeft,             \* useState timeLeft
    players,              \* Simulation: useState players
    foodItems,            \* Simulation: useState foodItems
    claimedBy,            \* history: per food item, the players credited with it
    awaitingFirstTick,    \* history: no update has run yet in the current run
    skippedFrame,         \* history: a frame found the World not yet spawned
    nextTickWorld         \* the spawned World, as advanced by the
                          \* next-tick-visible variant of the update step

vars == <<playerCount, foodAmount, scores, isSimulationRunning, isGameOver,
          timeLeft, players, foodItems, claimedBy, awaitingFirstTick,
          skippedFrame, nextTickWorld>>

\* ------------------------------------------------------------ arithmetic
Abs(x) == IF x < 0 THEN -x ELSE x
Sgn(x) == IF x < 0 THEN -1 ELSE IF x > 0 THEN 1 ELSE 0
Sq(x) == x * x
Max(a, b) == IF a > b THEN a ELSE b
Min(a, b) == IF a < b THEN a ELSE b

\* Squared horizontal distance between two positions.
Dist2(a, b) == Sq(a[1] - b[1]) + Sq(a[2] - b[2])

\* d * step / sqrt(len2), rounded to the nearest grid unit.
Component(d, step, len2) ==
    Sgn(d) * Sgn(step) *
        Cardinality({k \in 1..Abs(step) :
                        Sq(2 * k - 1) * len2 <= 4 * Sq(d) * Sq(step)})

RECURSIVE SumScores(_)
SumScores(ps) == IF ps = <<>> THEN 0 ELSE Head(ps).score + SumScores(Tail(ps))

\* ----------------------------------------------------------------- spawn
\* cos and sin of i/n of a full turn, times radius = mapSize * 0.75.
Circle ==
    << << <<12, 0>> >>,
       << <<12, 0>>, <<-12, 0>> >>,
       << <<12, 0>>, <<-6, 10>>, <<-6, -10>> >>,
       << <<12, 0>>, <<0, 12>>, <<-12, 0>>, <<0, -12>> >>,
       << <<12, 0>>, <<4, 11>>, <<-10, 7>>, <<-10, -7>>, <<4, -11>> >>,
       << <<12, 0>>, <<6, 10>>, <<-6, 10>>, <<-12, 0>>, <<-6, -10>>,
          <<6, -10>> >>,
       << <<12, 0>>, <<7, 9>>, <<-3, 12>>, <<-11, 5>>, <<-11, -5>>,
          <<-3, -12>>, <<7, -9>> >>,
       << <<12, 0>>, <<8, 8>>, <<0, 12>>, <<-8, 8>>, <<-12, 0>>,
          <<-8, -8>>, <<0, -12>>, <<8, -8>> >> >>

\* The heading is kept as a direction vector; the spawn rotation is by
\* -angle about the vertical axis.
NewPlayers(n) ==
    [i \in 1..n |->
        [id |-> i - 1,
         position |-> Circle[n][i],
         heading |-> <<Circle[n][i][1], -Circle[n][i][2]>>,
         score |-> 0]]

NewFoodItem_consumed(i, site) == [id |-> i - 1, position |-> site, consumed |-> TRUE]

NewFoodItem(i, site) == [id |-> i - 1, position |-> site, consumed |-> FALSE]

NewFoodItems(layout) == [i \in 1..Len(layout) |-> NewFoodItem(i, layout[i])]

\* ------------------------------------------- update step (./buffetplayers)
\* A tick whose delta is zero, negative or not finite changes nothing.
Degenerate_nonFinite(delta) == delta.kind # "finite"

Degenerate(delta) == delta.kind # "finite" \/ delta.val <= 0

\* Index of the unconsumed food item nearest to pos, lowest id first among
\* equally near ones; 0 when every item is consumed.
Nearest_ignoresConsumed(pos, fs) ==
    IF Len(fs) = 0 THEN 0
    ELSE CHOOSE i \in 1..Len(fs) :
            \A j \in 1..Len(fs) :
                \/ Dist2(pos, fs[i].position) < Dist2(pos, fs[j].position)
                \/ /\ Dist2(pos, fs[i].position) = Dist2(pos, fs[j].position)
                   /\ fs[i].id <= fs[j].id

Nearest_highestIdOnTie(pos, fs) ==
    LET open == {i \in 1..Len(fs) : ~fs[i].consumed}
    IN  IF open = {} THEN 0
        ELSE CHOOSE i \in open :
                \A j \in open :
                    \/ Dist2(pos, fs[i].position) < Dist2(pos, fs[j].position)
                    \/ /\ Dist2(pos, fs[i].position) = Dist2(pos, fs[j].position)
                       /\ fs[i].id >= fs[j].id

Nearest(pos, fs) ==
    LET open == {i \in 1..Len(fs) : ~fs[i].consumed}
    IN  IF open = {} THEN 0
        ELSE CHOOSE i \in open :
                \A j \in open :
                    \/ Dist2(pos, fs[i].position) < Dist2(pos, fs[j].position)
                    \/ /\ Dist2(pos, fs[i].position) = Dist2(pos, fs[j].position)
                       /\ fs[i].id <= fs[j].id

\* The displacement of length step along the unit vector from pos to target.
Direction(pos, target, step) ==
    LET dx == target[1] - pos[1]
        dz == target[2] - pos[2]
        len2 == Sq(dx) + Sq(dz)
    IN  IF len2 = 0 THEN <<0, 0>>
        ELSE <<Component(dx, step, len2), Component(dz, step, len2)>>

Moved(pos, d) == <<pos[1] + d[1], pos[2] + d[2]>>

WithinPickup(pos, target) == Dist2(pos, target) < Sq(PickupRadius)

\* One player's turn: it targets the nearest unconsumed item, moves toward
\* it, and consumes it when it ends within the pickup radius.  claimed lists
\* the <<player id, food id>> pairs credited so far in the pass.  Each stage
\* binds its intermediate value once, as the element of a singleton set.
\*
\* Consumption: player k, displaced by d toward item t.
Land(k, acc, t, d) ==
    LET p == acc.players[k]
        fs == acc.foodItems
    IN  CHOOSE r \in
          {[players |->
               [acc.players EXCEPT
                   ![k] = [p EXCEPT !.position = moved,
                                    !.heading = IF d = <<0, 0>> THEN @ ELSE d,
                                    !.score = IF hit THEN @ + 1 ELSE @]],
            foodItems |->
               IF hit THEN [fs EXCEPT ![t].consumed = TRUE] ELSE fs,
            claimed |->
               IF hit THEN Append(acc.claimed, <<p.id, fs[t].id>>)
               ELSE acc.claimed] :
              moved \in {Moved(p.position, d)},
              hit \in {WithinPickup(Moved(p.position, d), fs[t].position)}} : TRUE

\* Movement: player k toward item t; no action when no item is left (t = 0).
Turn(k, acc, t, step) ==
    IF t = 0 THEN acc
    ELSE CHOOSE r \in
           {Land(k, acc, t, d) :
               d \in {Direction(acc.players[k].position,
                                acc.foodItems[t].position, step)}} : TRUE

\* Targeting.
UpdatePlayer(k, acc, step) ==
    CHOOSE r \in
        {Turn(k, acc, t, step) :
            t \in {Nearest(acc.players[k].position, acc.foodItems)}} : TRUE

\* One pass over the players in ascending id: a later player of the pass
\* reads the food as the earlier ones left it.  (The singleton set binds
\* the result of one turn before the next turn reads it.)
RECURSIVE UpdateFrom_descending(_, _, _)
UpdateFrom_descending(k, acc, step) ==
    IF k > Len(acc.players) THEN acc
    ELSE CHOOSE r \in
           {UpdateFrom_descending(k + 1, next, step) :
               next \in {UpdatePlayer(Len(acc.players) + 1 - k, acc, step)}} :
           TRUE

RECURSIVE UpdateFrom(_, _, _)
UpdateFrom(k, acc, step) ==
    IF k > Len(acc.players) THEN acc
    ELSE CHOOSE r \in {UpdateFrom(k + 1, next, step) :
                          next \in {UpdatePlayer(k, acc, step)}} : TRUE

updateBuffetPlayers(ps, fs, delta) ==
    IF Degenerate(delta)
    THEN [players |-> ps, foodItems |-> fs, claimed |-> <<>>]
    ELSE UpdateFrom(1, [players |-> ps, foodItems |-> fs, claimed |-> <<>>],
                    Speed * delta.val)

\* The next-tick-visible variant of the update step: every player targets
\* against the food as it was at the start of the tick (fs0); a consumed
\* flag set in this pass is seen by targeting only from the next tick on.
\* An item is still consumed by at most one player: the turns are applied
\* in ascending id and a player that reaches an item already taken in this
\* pass gets no point.
LandNextTick_creditsAgain(k, acc, fs0, t, d) ==
    LET p == acc.players[k]
    IN  CHOOSE r \in
          {[players |->
               [acc.players EXCEPT
                   ![k] = [p EXCEPT !.position = moved,
                                    !.heading = IF d = <<0, 0>> THEN @ ELSE d,
                                    !.score = IF hit THEN @ + 1 ELSE @]],
            foodItems |->
               IF hit THEN [acc.foodItems EXCEPT ![t].consumed = TRUE]
               ELSE acc.foodItems] :
              moved \in {Moved(p.position, d)},
              hit \in {WithinPickup(Moved(p.position, d), fs0[t].position)}} :
          TRUE

LandNextTick(k, acc, fs0, t, d) ==
    LET p == acc.players[k]
    IN  CHOOSE r \in
          {[players |->
               [acc.players EXCEPT
                   ![k] = [p EXCEPT !.position = moved,
                                    !.heading = IF d = <<0, 0>> THEN @ ELSE d,
                                    !.score = IF hit THEN @ + 1 ELSE @]],
            foodItems |->
               IF hit THEN [acc.foodItems EXCEPT ![t].consumed = TRUE]
               ELSE acc.foodItems] :
              moved \in {Moved(p.position, d)},
              hit \in {/\ WithinPickup(Moved(p.position, d), fs0[t].position)
                       /\ ~acc.foodItems[t].consumed}} :
          TRUE

TurnNextTick(k, acc, fs0, t, step) ==
    IF t = 0 THEN acc
    ELSE CHOOSE r \in
           {LandNextTick(k, acc, fs0, t, d) :
               d \in {Direction(acc.players[k].position,
                                fs0[t].position, step)}} : TRUE

UpdatePlayerNextTick(k, acc, fs0, step) ==
    CHOOSE r \in
        {TurnNextTick(k, acc, fs0, t, step) :
            t \in {Nearest(acc.players[k].position, fs0)}} : TRUE

RECURSIVE UpdateFromNextTick(_, _, _, _)
UpdateFromNextTick(k, acc, fs0, step) ==
    IF k > Len(acc.players) THEN acc
    ELSE CHOOSE r \in
           {UpdateFromNextTick(k + 1, next, fs0, step) :
               next \in {UpdatePlayerNextTick(k, acc, fs0, step)}} : TRUE

updateNextTickVisible(ps, fs, delta) ==
    IF Degenerate(delta)
    THEN [players |-> ps, foodItems |-> fs]
    ELSE UpdateFromNextTick(1, [players |-> ps, foodItems |-> fs], fs,
                            Speed * delta.val)

\* ------------------------------------------------------- frame helpers
\* useFrame's first line: nothing happens before the World exists.
WorldEmpty_never(ps, fs) == FALSE

WorldEmpty(ps, fs) == Len(ps) = 0 \/ Len(fs) = 0

ClampCoord(v) == Max(-mapSize, Min(mapSize, v))

ClampCoord_swapped(v) == Min(-mapSize, Max(mapSize, v))

ClampPlayers_none(ps) == ps

ClampPlayers_swapped(ps) ==
    [i \in 1..Len(ps) |->
        [ps[i] EXCEPT !.position = <<ClampCoord_swapped(@[1]), ClampCoord_swapped(@[2])>>]]

ClampPlayers(ps) ==
    [i \in 1..Len(ps) |->
        [ps[i] EXCEPT !.position = <<ClampCoord(@[1]), ClampCoord(@[2])>>]]

UpdatedFoodItems_stale(result, fs) == fs

UpdatedFoodItems(result, fs) == result.foodItems

AllConsumed_some(fs) == \E i \in 1..Len(fs) : fs[i].consumed

AllConsumed(fs) == \A i \in 1..Len(fs) : fs[i].consumed

ScoresOf_zeros(ps) == [i \in 1..Len(ps) |-> 0]

ScoresOf(ps) == [i \in 1..Len(ps) |-> ps[i].score]

\* The credits of one pass added to the per-item history.
RECURSIVE CreditedTo(_, _)
CreditedTo(claimed, fid) ==
    IF claimed = <<>> THEN <<>>
    ELSE (IF Head(claimed)[2] = fid THEN <<Head(claimed)[1]>> ELSE <<>>)
            \o CreditedTo(Tail(claimed), fid)

Credit(cb, claimed) == [f \in 1..Len(cb) |-> cb[f] \o CreditedTo(claimed, f - 1)]

\* --------------------------------------------------------------- state
Mounted == isSimulationRunning \/ isGameOver

ParametersBarShown_always == TRUE

ParametersBarShown == ~isSimulationRunning /\ ~isGameOver

Init ==
    /\ playerCount = InitialPlayerCount
    /\ foodAmount = InitialFoodAmount
    /\ scores = <<>>
    /\ isSimulationRunning = FALSE
    /\ isGameOver = FALSE
    /\ timeLeft = gameDuration
    /\ players = <<>>
    /\ foodItems = <<>>
    /\ claimedBy = <<>>
    /\ awaitingFirstTick = FALSE
    /\ skippedFrame = FALSE
    /\ nextTickWorld = [players |-> <<>>, foodItems |-> <<>>]

\* parseInt(e.target.value) || 1
ParsedOrOne(v) == IF v.kind = "NaN" \/ v.val = 0 THEN 1 ELSE v.val

\* onChange of the player count input.
EditPlayerCount_unclamped(v) ==
    /\ ParametersBarShown
    /\ playerCount' = ParsedOrOne(v)
    /\ UNCHANGED <<foodAmount, scores, isSimulationRunning, isGameOver, timeLeft,
                   players, foodItems, claimedBy, awaitingFirstTick,
                   skippedFrame,
                   nextTickWorld>>

EditPlayerCount(v) ==
    /\ ParametersBarShown
    /\ playerCount' = Max(MinPlayers, Min(MaxPlayerCount, ParsedOrOne(v)))
    /\ UNCHANGED <<foodAmount, scores, isSimulationRunning, isGameOver, timeLeft,
                   players, foodItems, claimedBy, awaitingFirstTick,
                   skippedFrame,
                   nextTickWorld>>

\* onChange of the food count input.
EditFoodAmount(v) ==
    /\ ParametersBarShown
    /\ foodAmount' = Max(MinFoodAmount, Min(MaxFoodAmount, ParsedOrOne(v)))
    /\ UNCHANGED <<playerCount, scores, isSimulationRunning, isGameOver, timeLeft,
                   players, foodItems, claimedBy, awaitingFirstTick,
                   skippedFrame,
                   nextTickWorld>>

startSimulation ==
    /\ scores' = [i \in 1..playerCount |-> 0]
    /\ timeLeft' = gameDuration
    /\ isGameOver' = FALSE
    /\ isSimulationRunning' = TRUE
    /\ awaitingFirstTick' = TRUE
    /\ UNCHANGED <<playerCount, foodAmount, players, foodItems, claimedBy,
                   skippedFrame,
                   nextTickWorld>>

\* The Start button of the parameters bar.  Worlds larger than the bounds
\* are not explored.
Start ==
    /\ ParametersBarShown
    /\ playerCount <= MaxPlayers
    /\ foodAmount <= MaxFood
    /\ startSimulation

\* The Play Again button of the game-over overlay.
handlePlayAgain ==
    /\ isGameOver
    /\ startSimulation

\* The initialization effect of Simulation: it runs after the component
\* mounts and again only when playerCount, foodAmount or mapSize change.
InitEffect ==
    /\ Mounted
    /\ players = <<>>
    /\ \E layout \in [1..foodAmount -> FoodSites] :
          /\ players' = NewPlayers(playerCount)
          /\ foodItems' = NewFoodItems(layout)
          /\ nextTickWorld' = [players |-> NewPlayers(playerCount),
                               foodItems |-> NewFoodItems(layout)]
    /\ claimedBy' = [f \in 1..foodAmount |-> <<>>]
    /\ skippedFrame' = FALSE
    /\ UNCHANGED <<playerCount, foodAmount, scores, isSimulationRunning,
                   isGameOver, timeLeft, awaitingFirstTick>>

\* One firing of the one-second interval, which exists while the run is
\* active.
TimerTick_keepsRunning ==
    /\ isSimulationRunning /\ ~isGameOver
    /\ IF timeLeft <= 1
       THEN /\ timeLeft' = 0
            /\ isGameOver' = TRUE
            /\ UNCHANGED isSimulationRunning
       ELSE /\ timeLeft' = timeLeft - 1
            /\ UNCHANGED <<isGameOver, isSimulationRunning>>
    /\ UNCHANGED <<playerCount, foodAmount, scores, players, foodItems,
                   claimedBy, awaitingFirstTick, skippedFrame,
                   nextTickWorld>>

TimerTick_lateStop ==
    /\ isSimulationRunning /\ ~isGameOver
    /\ IF timeLeft <= 0
       THEN /\ timeLeft' = 0
            /\ isGameOver' = TRUE
            /\ isSimulationRunning' = FALSE
       ELSE /\ timeLeft' = timeLeft - 1
            /\ UNCHANGED <<isGameOver, isSimulationRunning>>
    /\ UNCHANGED <<playerCount, foodAmount, scores, players, foodItems,
                   claimedBy, awaitingFirstTick, skippedFrame,
                   nextTickWorld>>

TimerTick ==
    /\ isSimulationRunning /\ ~isGameOver
    /\ IF timeLeft <= 1
       THEN /\ timeLeft' = 0
            /\ isGameOver' = TRUE
            /\ isSimulationRunning' = FALSE
       ELSE /\ timeLeft' = timeLeft - 1
            /\ UNCHANGED <<isGameOver, isSimulationRunning>>
    /\ UNCHANGED <<playerCount, foodAmount, scores, players, foodItems,
                   claimedBy, awaitingFirstTick, skippedFrame,
                   nextTickWorld>>

\* One call of the useFrame callback of Simulation.
Frame_ignoresPause(delta) ==
    /\ Mounted
    /\ IF WorldEmpty(players, foodItems)
       THEN /\ skippedFrame' = TRUE
            /\ UNCHANGED <<scores, isSimulationRunning, isGameOver, players,
                           foodItems, claimedBy, awaitingFirstTick>>
       ELSE \E result \in {updateBuffetPlayers(players, foodItems, delta)} :
            LET updatedPlayers == ClampPlayers(result.players)
                updatedFoodItems == UpdatedFoodItems(result, foodItems)
                depleted == AllConsumed(updatedFoodItems)
            IN  /\ players' = updatedPlayers
                /\ foodItems' = updatedFoodItems
                /\ claimedBy' = Credit(claimedBy, result.claimed)
                /\ isGameOver' = (depleted \/ isGameOver)
                /\ isSimulationRunning' = (~depleted /\ isSimulationRunning)
                /\ scores' = ScoresOf(updatedPlayers)
                /\ awaitingFirstTick' = FALSE
                /\ UNCHANGED skippedFrame
    /\ UNCHANGED <<playerCount, foodAmount, timeLeft, nextTickWorld>>

Frame(delta) ==
    /\ Mounted
    /\ IF WorldEmpty(players, foodItems)
       THEN /\ skippedFrame' = TRUE
            /\ UNCHANGED <<scores, isSimulationRunning, isGameOver, players,
                           foodItems, claimedBy, awaitingFirstTick>>
       ELSE IF isSimulationRunning /\ ~isGameOver
       THEN \E result \in {updateBuffetPlayers(players, foodItems, delta)} :
            LET updatedPlayers == ClampPlayers(result.players)
                updatedFoodItems == UpdatedFoodItems(result, foodItems)
                depleted == AllConsumed(updatedFoodItems)
            IN  /\ players' = updatedPlayers
                /\ foodItems' = updatedFoodItems
                /\ claimedBy' = Credit(claimedBy, result.claimed)
                /\ isGameOver' = (depleted \/ isGameOver)
                /\ isSimulationRunning' = (~depleted /\ isSimulationRunning)
                /\ scores' = ScoresOf(updatedPlayers)
                /\ awaitingFirstTick' = FALSE
                /\ UNCHANGED skippedFrame
       ELSE /\ scores' = ScoresOf(players)
            /\ UNCHANGED <<isSimulationRunning, isGameOver, players, foodItems,
                           claimedBy, awaitingFirstTick, skippedFrame>>
    /\ UNCHANGED <<playerCount, foodAmount, timeLeft, nextTickWorld>>

Next ==
    \/ \E v \in InputValues : EditPlayerCount(v)
    \/ \E v \in InputValues : EditFoodAmount(v)
    \/ Start
    \/ handlePlayAgain
    \/ InitEffect
    \/ TimerTick
    \/ \E delta \in Deltas : Frame(delta)

Spec == Init /\ [][Next]_vars

\* ---------------------------------------------------------- properties
Flipped(f) == ~foodItems[f].consumed /\ foodItems'[f].consumed

SameWorld == Len(foodItems') = Len(foodItems) /\ Len(players') = Len(players)

\* C1: no food item is consumed by two players: an item is credited at most
\* once over the whole run, and a step in which items go from unconsumed to
\* consumed credits each of them to exactly one player and raises the sum
\* of the scores by exactly the number of those items.
C1_SingleClaim ==
    [][ /\ \A f \in 1..Len(claimedBy') : Len(claimedBy'[f]) <= 1
        /\ SameWorld =>
              /\ \A f \in 1..Len(foodItems) :
                    Flipped(f) => claimedBy[f] = <<>> /\ Len(claimedBy'[f]) = 1
              /\ SumScores(players') - SumScores(players)
                    = Cardinality({f \in 1..Len(foodItems) : Flipped(f)}) ]_vars

\* Two players stand within the pickup radius of an item that was credited
\* to one of them.
C1_Witness ==
    \E f \in 1..Len(foodItems) : \E p, q \in 1..Len(players) :
        /\ p # q
        /\ claimedBy[f] = <<players[p].id>>
        /\ Dist2(players[p].position, foodItems[f].position) < Sq(PickupRadius)
        /\ Dist2(players[q].position, foodItems[f].position) < Sq(PickupRadius)

\* C2: every player's x and z lie within [-mapSize, mapSize] in every
\* reachable state.
C2_Boundary ==
    \A p \in 1..Len(players) :
        /\ players[p].position[1] >= -MAP_SIZE * Scale
        /\ players[p].position[1] <= MAP_SIZE * Scale
        /\ players[p].position[2] >= -MAP_SIZE * Scale
        /\ players[p].position[2] <= MAP_SIZE * Scale

\* A player has been moved onto the boundary.
C2_Witness ==
    \E p \in 1..Len(players) :
        /\ players[p].position # Circle[Len(players)][p]
        /\ \/ Abs(players[p].position[1]) = MAP_SIZE * Scale
           \/ Abs(players[p].position[2]) = MAP_SIZE * Scale

\* C3: in every step no player's score decreases, and it increases by at
\* most the number of items that went from unconsumed to consumed in that
\* step and were credited to that player.
C3_MonotonicScore ==
    [][ SameWorld =>
          \A p \in 1..Len(players) :
             /\ players'[p].score >= players[p].score
             /\ players'[p].score - players[p].score
                   <= Cardinality({f \in 1..Len(foodItems) :
                                      /\ Flipped(f)
                                      /\ claimedBy'[f] = <<players[p].id>>}) ]_vars

\* A player has scored twice.
C3_Witness == \E p \in 1..Len(players) : players[p].score >= 2

\* C4: every food item is unconsumed when spawned, and a consumed item is
\* still there and still consumed after every step.
C4_ConsumedStays ==
    [][ /\ (Len(foodItems) = 0 /\ Len(foodItems') > 0) =>
              \A f \in 1..Len(foodItems') : ~foodItems'[f].consumed
        /\ \A f \in 1..Len(foodItems) :
              foodItems[f].consumed =>
                  f <= Len(foodItems') /\ foodItems'[f].consumed ]_vars

\* A later run has started, with an item consumed in an earlier run.
C4_Witness ==
    /\ isSimulationRunning
    /\ awaitingFirstTick
    /\ \E f \in 1..Len(foodItems) : foodItems[f].consumed

\* C5: an update tick (a frame of an active run with a spawned World) ends
\* the run exactly when every food item is consumed after it.
C5_DepletionSignal ==
    [][ \/ ( (isGameOver' /\ ~isSimulationRunning')
               <=> \A f \in 1..Len(foodItems') : foodItems'[f].consumed )
        \/ ~( /\ Len(players) > 0 /\ Len(foodItems) > 0
              /\ isSimulationRunning /\ ~isGameOver
              /\ timeLeft' = timeLeft
              /\ \E delta \in Deltas : Frame(delta) ) ]_vars

\* A run ended by depletion, not by the countdown.
C5_Witness ==
    /\ isGameOver /\ ~isSimulationRunning
    /\ timeLeft > 0
    /\ Len(foodItems) > 0
    /\ \A f \in 1..Len(foodItems) : foodItems[f].consumed

\* C6: at the start of every run with a spawned World, before its first
\* update tick, every player has score 0 and every food item is unconsumed.
C6_FreshWorldEveryRun ==
    (isSimulationRunning /\ awaitingFirstTick /\ Len(players) > 0) =>
        /\ \A p \in 1..Len(players) : players[p].score = 0
        /\ \A f \in 1..Len(foodItems) : ~foodItems[f].consumed

\* C8 as stated: once a frame has run on a World with zero food items, the
\* run has ended.
C8_EmptyWorldEndsRun ==
    (skippedFrame /\ Len(foodItems) = 0) => (isGameOver /\ ~isSimulationRunning)

\* C8, amended: a frame on a World with zero food items is skipped: it does
\* not end the run and changes no player, no score and no food item.
C8_EmptyWorldSkipped ==
    [][ ( Len(foodItems) = 0 /\ (\E delta \in Deltas : Frame(delta)) )
        => UNCHANGED <<isGameOver, isSimulationRunning, players, foodItems,
                       scores, claimedBy>> ]_vars

\* A frame has run on the World with zero food items while the run is active.
C8_Witness ==
    skippedFrame /\ Len(foodItems) = 0 /\ isSimulationRunning /\ ~isGameOver

\* C9: a frame whose delta is zero, negative or not finite leaves every
\* player (position, heading, score) and every food item as it was.
C9_DegenerateTickNoOp ==
    [][ \A delta \in Deltas :
           \/ UNCHANGED <<players, foodItems, claimedBy>>
           \/ ~( /\ delta.kind # "finite" \/ delta.val <= 0
                 /\ timeLeft' = timeLeft
                 /\ Frame(delta) ) ]_vars

\* The first update tick of the run has happened and the World is still as
\* spawned (a tick with a positive delta moves every player).
C9_Witness ==
    /\ isSimulationRunning /\ ~awaitingFirstTick
    /\ Len(players) > 0
    /\ players = NewPlayers(Len(players))
    /\ \A f \in 1..Len(foodItems) : ~foodItems[f].consumed

\* ------------------------------------------------ uninterrupted run
\* The run left to itself: no countdown and no Play Again, and every frame
\* reports a positive delta of at most StableStep / Speed.
FrameBounded == \E delta \in BoundedDeltas : Frame(delta)

NextLive ==
    \/ \E v \in InputValues : EditPlayerCount(v)
    \/ \E v \in InputValues : EditFoodAmount(v)
    \/ Start
    \/ InitEffect
    \/ FrameBounded

\* The render loop keeps calling the frame callback.
SpecLive ==
    Init /\ [][NextLive]_vars /\ WF_vars(FrameBounded)

NextFrames ==
    \/ \E v \in InputValues : EditPlayerCount(v)
    \/ \E v \in InputValues : EditFoodAmount(v)
    \/ Start
    \/ handlePlayAgain
    \/ InitEffect
    \/ \E delta \in Deltas : Frame(delta)

SpecFrames == Init /\ [][NextFrames]_vars

\* An update tick: a frame of an active run with a spawned World and a
\* positive finite delta.  (A frame leaves the countdown alone, and a step
\* that changes nothing satisfies every step property: both are tested
\* before the frame is computed.)
TickOf(delta) ==
    /\ delta.kind = "finite" /\ delta.val > 0
    /\ isSimulationRunning /\ ~isGameOver
    /\ Len(players) > 0 /\ Len(foodItems) > 0
    /\ timeLeft' = timeLeft
    /\ vars' # vars
    /\ Frame(delta)

\* Items credited in this step to a player with an id below id.
TakenBelow(f, id) ==
    /\ claimedBy'[f] # claimedBy[f]
    /\ claimedBy'[f][Len(claimedBy'[f])] < id

\* The items player k can still target when its turn of the pass comes.
OpenAt(k) ==
    {f \in 1..Len(foodItems) :
        ~foodItems[f].consumed /\ ~TakenBelow(f, players[k].id)}

\* The items of OpenAt(k) at minimal distance from player k.
NearestAt(k) ==
    {t \in OpenAt(k) :
        \A j \in OpenAt(k) :
            Dist2(players[k].position, foodItems[t].position)
                <= Dist2(players[k].position, foodItems[j].position)}

\* Where player k is after moving toward item t by step and being clamped.
ArrivesAt(k, t, step) ==
    LET to == Moved(players[k].position,
                    Direction(players[k].position, foodItems[t].position, step))
        lim == MAP_SIZE * Scale
    IN  << IF to[1] > lim THEN lim ELSE IF to[1] < -lim THEN -lim ELSE to[1],
           IF to[2] > lim THEN lim ELSE IF to[2] < -lim THEN -lim ELSE to[2] >>

\* C11: in every update tick each player moves toward an unconsumed item
\* at minimal distance among the unconsumed items, and a player left with
\* no unconsumed item neither moves nor scores.
C11_TargetsNearestUnconsumed ==
    [][ \A delta \in Deltas :
           TickOf(delta) =>
              \A k \in 1..Len(players) :
                 IF OpenAt(k) = {}
                 THEN players'[k] = players[k]
                 ELSE \E t \in NearestAt(k) :
                         players'[k].position
                            = ArrivesAt(k, t, Speed * delta.val) ]_vars

\* The item with the higher id, at another place than the item with the
\* lower id, was consumed first.
C11_Witness ==
    \E f, g \in 1..Len(foodItems) :
        /\ f < g
        /\ foodItems[f].position # foodItems[g].position
        /\ ~foodItems[f].consumed
        /\ foodItems[g].consumed

C13_PopulationFixed ==
    [][ /\ (isSimulationRunning \/ isGameOver) =>
              playerCount' = playerCount /\ foodAmount' = foodAmount
        /\ Len(players) > 0 =>
              /\ Len(players') = playerCount'
              /\ Len(foodItems') = foodAmount'
              /\ Len(players') = Len(players)
              /\ Len(foodItems') = Len(foodItems)
              /\ \A k \in 1..Len(players) : players'[k].id = players[k].id
              /\ \A f \in 1..Len(foodItems) :
                    /\ foodItems'[f].id = foodItems[f].id
                    /\ foodItems'[f].position = foodItems[f].position ]_vars

\* A run that has ticked: a player has left its spawn point, an item is
\* consumed, and the World still has the chosen counts.
C13_Witness ==
    /\ Len(players) = playerCount
    /\ Len(foodItems) = foodAmount
    /\ playerCount = MaxPlayers
    /\ \E k \in 1..Len(players) :
          players[k].position # NewPlayers(playerCount)[k].position
    /\ \E f \in 1..Len(foodItems) : foodItems[f].consumed

\* C14: whatever is typed into the two inputs, the player count stays
\* within 1..8 and the food count within 1..500, and so does the size of
\* every spawned World.
C14_CountsClamped ==
    /\ playerCount \in MinPlayers..MaxPlayerCount
    /\ foodAmount \in MinFoodAmount..MaxFoodAmount
    /\ Len(players) > 0 =>
          /\ Len(players) \in MinPlayers..MaxPlayerCount
          /\ Len(foodItems) \in MinFoodAmount..MaxFoodAmount

\* Both counts sit at their upper limits, which only inputs above the
\* limits produce.
C14_Witness ==
    /\ playerCount = MaxPlayerCount
    /\ foodAmount = MaxFoodAmount

\* --------------------------------------------------- crediting properties
\* Player q is about to reach item f: at the start of the tick f is its
\* nearest unconsumed item (lowest id among equally near ones) and a move
\* of length step toward f ends within the pickup radius.
Contends(q, f, step) ==
    /\ ~foodItems[f].consumed
    /\ \A j \in 1..Len(foodItems) :
          ~foodItems[j].consumed =>
             \/ Dist2(players[q].position, foodItems[f].position)
                   < Dist2(players[q].position, foodItems[j].position)
             \/ /\ Dist2(players[q].position, foodItems[f].position)
                      = Dist2(players[q].position, foodItems[j].position)
                /\ foodItems[f].id <= foodItems[j].id
    /\ Dist2(Moved(players[q].position,
                   Direction(players[q].position, foodItems[f].position,
                             step)),
             foodItems[f].position) < Sq(PickupRadius)

C16_ScoresCountConsumed ==
    /\ \A k \in 1..Len(players) : players[k].score \in Nat
    /\ SumScores(players)
          = Cardinality({f \in 1..Len(foodItems) : foodItems[f].consumed})

\* Two players have each consumed an item.
C16_Witness ==
    \E p, q \in 1..Len(players) :
        /\ p # q
        /\ players[p].score >= 1
        /\ players[q].score >= 1

\* ------------------------------------------------------- run properties
\* C18: with a spawned World, a step taken while the run is not active
\* (not running, or game over) leaves every player and every food item as
\* it was; the World changes only in steps of an active run that are not
\* timer ticks.
C18_PausedWorldFrozen ==
    [][ Len(players) > 0 =>
           /\ ~(isSimulationRunning /\ ~isGameOver) =>
                 players' = players /\ foodItems' = foodItems
           /\ (players' # players \/ foodItems' # foodItems) =>
                 /\ isSimulationRunning /\ ~isGameOver
                 /\ timeLeft' = timeLeft ]_vars

\* The run was ended by the countdown after a player had left its spawn
\* point, with food still unconsumed.
C18_Witness ==
    /\ isGameOver /\ ~isSimulationRunning
    /\ Len(players) > 0
    /\ \E k \in 1..Len(players) :
          players[k].position # NewPlayers(Len(players))[k].position
    /\ \E f \in 1..Len(foodItems) : ~foodItems[f].consumed

\* C19: isSimulationRunning and isGameOver are never both true, and once a
\* run has been started (the scoreboard is filled) exactly one of them is
\* true.
C19_RunningXorOver ==
    /\ ~(isSimulationRunning /\ isGameOver)
    /\ Len(scores) > 0 => (isSimulationRunning \/ isGameOver)

\* A second run: started, not yet ticked, over a World in which an item
\* was consumed in an earlier run.
C19_Witness ==
    /\ isSimulationRunning /\ ~isGameOver
    /\ awaitingFirstTick
    /\ \E f \in 1..Len(foodItems) : foodItems[f].consumed

\* C20: the countdown is within 0..60, is set to 60 by every start,
\* changes otherwise only by a timer tick of an active run, which lowers
\* it by exactly 1, and the tick that brings it to 0 ends the run (game
\* over, not running); an active run always has at least 1 second left,
\* so it sees at most 60 timer ticks.
C20_Countdown ==
    [][ /\ timeLeft' \in 0..gameDuration
        /\ (isSimulationRunning' /\ ~isSimulationRunning) =>
              timeLeft' = gameDuration
        /\ timeLeft' # timeLeft =>
              \/ /\ isSimulationRunning' /\ ~isSimulationRunning
                 /\ timeLeft' = gameDuration
              \/ /\ isSimulationRunning /\ ~isGameOver
                 /\ timeLeft' = timeLeft - 1
        /\ TimerTick =>
              /\ timeLeft' = timeLeft - 1
              /\ timeLeft' = 0 => isGameOver' /\ ~isSimulationRunning'
        /\ isSimulationRunning' => timeLeft' >= 1 ]_vars

\* The countdown ran out with food left.
C20_Witness ==
    /\ timeLeft = 0
    /\ isGameOver /\ ~isSimulationRunning
    /\ Len(foodItems) > 0
    /\ \A f \in 1..Len(foodItems) : ~foodItems[f].consumed

\* ------------------------------------------- the two visibility variants
\* The same World advanced in lockstep by both variants of the update
\* step, on the same delta sequence; a variant stops once all its food is
\* consumed.
PairDeltas == PositiveDeltas \cup {Num(BigDelta)}

AdvanceBoth(delta) ==
    /\ isSimulationRunning
    /\ ~WorldEmpty(players, foodItems)
    /\ ~(AllConsumed(foodItems) /\ AllConsumed(nextTickWorld.foodItems))
    /\ IF AllConsumed(foodItems)
       THEN UNCHANGED <<players, foodItems, claimedBy>>
       ELSE \E result \in {updateBuffetPlayers(players, foodItems, delta)} :
               /\ players' = ClampPlayers(result.players)
               /\ foodItems' = result.foodItems
               /\ claimedBy' = Credit(claimedBy, result.claimed)
    /\ IF AllConsumed(nextTickWorld.foodItems)
       THEN UNCHANGED nextTickWorld
       ELSE \E result \in {updateNextTickVisible(nextTickWorld.players,
                                                 nextTickWorld.foodItems,
                                                 delta)} :
               nextTickWorld' = [players |-> ClampPlayers(result.players),
                                 foodItems |-> result.foodItems]
    /\ UNCHANGED <<playerCount, foodAmount, scores, isSimulationRunning,
                   isGameOver, timeLeft, awaitingFirstTick, skippedFrame>>

NextPair ==
    \/ \E v \in InputValues : EditPlayerCount(v)
    \/ \E v \in InputValues : EditFoodAmount(v)
    \/ Start
    \/ InitEffect
    \/ \E delta \in PairDeltas : AdvanceBoth(delta)

SpecPair == Init /\ [][NextPair]_vars

BothDepleted ==
    /\ Len(foodItems) > 0
    /\ \A f \in 1..Len(foodItems) :
          foodItems[f].consumed /\ nextTickWorld.foodItems[f].consumed

\* C17 as stated: once both variants have consumed all the food, the
\* players' final scores are the same in both.
C17_SameFinalScores ==
    BothDepleted =>
       \A k \in 1..Len(players) :
          players[k].score = nextTickWorld.players[k].score

\* C17, amended: in both variants the scores add up to the number of
\* consumed items at every moment, so once both have consumed all the
\* food each item has been credited exactly once and the total score is
\* the food count in both.
C17_SameTotalScore ==
    /\ SumScores(players)
          = Cardinality({f \in 1..Len(foodItems) : foodItems[f].consumed})
    /\ SumScores(nextTickWorld.players)
          = Cardinality({f \in 1..Len(nextTickWorld.foodItems) :
                            nextTickWorld.foodItems[f].consumed})
    /\ BothDepleted =>
          /\ \A f \in 1..Len(foodItems) : Len(claimedBy[f]) = 1
          /\ SumScores(players) = Len(foodItems)
          /\ SumScores(nextTickWorld.players) = Len(foodItems)

\* Both variants have consumed all the food and a player's final score
\* differs between them.
C17_Witness ==
    /\ BothDepleted
    /\ \E k \in 1..Len(players) :
          players[k].score # nextTickWorld.players[k].score

\* --------------------------------------------------- scoreboard property
\* C21: after every frame on a World with at least one player and one food
\* item, the scoreboard has one entry per player and each entry equals
\* that player's score, whether the run is active, paused or over.
C21_ScoreboardFollowsScores ==
    [][ \/ /\ Len(scores') = Len(players')
           /\ \A k \in 1..Len(players') : scores'[k] = players'[k].score
        \/ ~( /\ Len(players) > 0 /\ Len(foodItems) > 0
              /\ timeLeft' = timeLeft
              /\ \E delta \in Deltas : Frame(delta) ) ]_vars

\* An active run has ticked, food is left, and the scoreboard shows the
\* point a player has scored.
C21_Witness ==
    /\ isSimulationRunning /\ ~isGameOver /\ ~awaitingFirstTick
    /\ Len(scores) = Len(players)
    /\ \A k \in 1..Len(players) : scores[k] = players[k].score
    /\ \E k \in 1..Len(players) : scores[k] >= 1
    /\ \E f \in 1..Len(foodItems) : ~foodItems[f].consumed

====
